---- MODULE Spec2Model ----
(***************************************************************************)
(* WiredTigerRecoveryUnit (wiredtiger_recovery_unit.cpp) as a state        *)
(* machine.  One recovery unit, its storage-engine transaction, and the    *)
(* change handlers it runs on commit and rollback.                         *)
(*                                                                         *)
(* Every member function is a pure operator on the record W of the         *)
(* object's fields; an action applies one operator to the current fields.  *)
(* A failed invariant()/fassert() terminates the process: the operator     *)
(* returns the fields as they were when the assertion fired, with halt     *)
(* saying how the process ended, and no action is enabled afterwards.      *)
(* A uassert() is an exception: the operator returns with                  *)
(* status set to the error code and the rest of the function skipped.      *)
(*                                                                         *)
(* _commit and _abort run the handlers one by one: pc says which of the    *)
(* two is in progress, idx which handler is next, inHandler whether a      *)
(* handler is executing.  While a handler executes it may call any member  *)
(* function of the recovery unit.                                          *)
(***************************************************************************)
EXTENDS Integers, Sequences, FiniteSets, TLC

\* ---------------------------------------------------------------- bounds
\* Largest commit / prepare timestamp a caller passes.
MaxTs == 2
\* Largest read timestamp a caller or a collaborator provides.
MaxReadTs == 2
\* Most handlers registered in one unit of work.
MaxChanges == 2
\* Largest snapshot id handed out.
MaxSnapshotId == 3
\* Most member functions the handlers of one _commit or _abort call.
MaxHandlerCalls == 2
\* Threads that construct recovery units and close transactions concurrently.
MaxThreads == 2

\* -------------------------------------------------------------- constants
\* boost::none of an optional<Timestamp>
NoTs == -1
\* Timestamp() (isNull) is 0
Timestamps == 0..MaxTs
OptTimestamps == {NoTs} \cup Timestamps

States ==
    {"Inactive", "InactiveInUnitOfWork", "ActiveNotInUnitOfWork", "Active",
     "Committing", "Aborting"}

ReadSources ==
    {"Unset", "NoTimestamp", "MajorityCommitted", "LastApplied",
     "LastAppliedSnapshot", "AllCommittedSnapshot", "Provided"}

\* The threads that own further recovery units.
Threads == 1..MaxThreads

\* A thread that has not constructed its recovery unit.  at: "none", "idle",
\* or the function that is assigning _mySnapshotId; got: the value fetched
\* from the counter, 0 before the fetch; floor: the largest value assigned
\* when the function was entered; id: _mySnapshotId.
NoUnit == [at |-> "none", got |-> 0, floor |-> 0, id |-> 0]

\* The session's storage-engine transaction: none open.
NoTxn == [open |-> FALSE, prepared |-> FALSE, commitTs |-> 0, readTs |-> 0]

VARIABLES
    state,                      \* _state
    session,                    \* _session is non-null
    txn,                        \* the engine transaction on the session
    changes,                    \* _changes
    commitTimestamp,            \* _commitTimestamp
    lastTimestampSet,           \* _lastTimestampSet (optional)
    prepareTimestamp,           \* _prepareTimestamp
    isTimestamped,              \* _isTimestamped
    orderedCommit,              \* _orderedCommit
    isOplogReader,              \* _isOplogReader
    timestampReadSource,        \* _timestampReadSource
    readAtTimestamp,            \* _readAtTimestamp
    majorityCommittedSnapshot,  \* _majorityCommittedSnapshot
    mySnapshotId,               \* _mySnapshotId
    nextSnapshotId,             \* the process-wide counter
    failpoint,                  \* WTAlwaysNotifyPrepareConflictWaiters armed
    pc,                         \* "idle", or the _commit/_abort in progress
    idx,                        \* the loop iterator of _commit/_abort
    inHandler,                  \* a handler's commit()/rollback() is executing
    calls,                      \* member functions called by handlers so far
    commitTime,                 \* the local commitTime of _commit
    log,                        \* what the running _commit/_abort has called
    registered,                 \* handlers registered in this or the last
                                \* unit of work of the owner, in order
    status,                     \* what the last call returned or threw
    halt,                       \* "none", or why the process ended
    units,                      \* per thread: its recovery unit and how far
                                \* its constructor or _txnClose has come
    assigned                    \* the snapshot ids assigned so far, in order

vars ==
    <<state, session, txn, changes, commitTimestamp, lastTimestampSet,
      prepareTimestamp, isTimestamped, orderedCommit, isOplogReader,
      timestampReadSource, readAtTimestamp, majorityCommittedSnapshot,
      mySnapshotId, nextSnapshotId, failpoint, pc, idx, inHandler, calls,
      commitTime, log, registered, status, halt, units, assigned>>

\* The fields as one record.
W ==
    [state |-> state, session |-> session, txn |-> txn, changes |-> changes,
     commitTimestamp |-> commitTimestamp, lastTimestampSet |-> lastTimestampSet,
     prepareTimestamp |-> prepareTimestamp, isTimestamped |-> isTimestamped,
     orderedCommit |-> orderedCommit, isOplogReader |-> isOplogReader,
     timestampReadSource |-> timestampReadSource,
     readAtTimestamp |-> readAtTimestamp,
     majorityCommittedSnapshot |-> majorityCommittedSnapshot,
     mySnapshotId |-> mySnapshotId, nextSnapshotId |-> nextSnapshotId,
     failpoint |-> failpoint, pc |-> pc, idx |-> idx, inHandler |-> inHandler,
     calls |-> calls, commitTime |-> commitTime, log |-> log, registered |-> registered,
     status |-> status, halt |-> halt, units |-> units, assigned |-> assigned]

\* The next state's fields are those of record w.
Set(w) ==
    /\ state' = w.state
    /\ session' = w.session
    /\ txn' = w.txn
    /\ changes' = w.changes
    /\ commitTimestamp' = w.commitTimestamp
    /\ lastTimestampSet' = w.lastTimestampSet
    /\ prepareTimestamp' = w.prepareTimestamp
    /\ isTimestamped' = w.isTimestamped
    /\ orderedCommit' = w.orderedCommit
    /\ isOplogReader' = w.isOplogReader
    /\ timestampReadSource' = w.timestampReadSource
    /\ readAtTimestamp' = w.readAtTimestamp
    /\ majorityCommittedSnapshot' = w.majorityCommittedSnapshot
    /\ mySnapshotId' = w.mySnapshotId
    /\ nextSnapshotId' = w.nextSnapshotId
    /\ failpoint' = w.failpoint
    /\ pc' = w.pc
    /\ idx' = w.idx
    /\ inHandler' = w.inHandler
    /\ calls' = w.calls
    /\ commitTime' = w.commitTime
    /\ log' = w.log
    /\ registered' = w.registered
    /\ status' = w.status
    /\ halt' = w.halt
    /\ units' = w.units
    /\ assigned' = w.assigned

\* An entry of log: the call made, the handler and timestamp it concerns, and
\* the state of the recovery unit when it was made.
Event(ev, h, t, st) == [ev |-> ev, h |-> h, t |-> t, st |-> st]

\* ------------------------------------------------------- state predicates
isActive(w) == w.state \in {"ActiveNotInUnitOfWork", "Active"}

inUnitOfWork(w) == w.state \in {"InactiveInUnitOfWork", "Active"}

isCommittingOrAborting(w) == w.state \in {"Committing", "Aborting"}

setState(w, newState) == [w EXCEPT !.state = newState]

\* invariant()/fassert() failed: the process terminates.
fatal(w) == [w EXCEPT !.halt = "fatal"]

\* invariantWTOK() failed: the engine returned an error where none is handled.
wtFatal(w) == [w EXCEPT !.halt = "invariantWTOK"]

\* The call has undefined behaviour.
undefined(w) == [w EXCEPT !.halt = "undefined"]

\* uassert(): an exception with this code leaves the function.
throw(w, code) == [w EXCEPT !.status = code]

\* Variant: no session is ever acquired.
ensureSession_Never(w) == w

ensureSession(w) == IF ~w.session THEN [w EXCEPT !.session = TRUE] ELSE w

\* Variant: the journal flush is triggered for ordered commits too.
txnClose_FlushWhenOrdered(w, commit) ==
    IF ~isActive(w) THEN fatal(w)
    ELSE
      LET stamped == commit /\ w.commitTimestamp # 0
          applied == IF stamped THEN w.commitTimestamp ELSE w.txn.commitTs
          timestamped == stamped \/ w.isTimestamped
          closed ==
              <<Event(IF commit THEN "commit_transaction"
                                ELSE "rollback_transaction",
                      0, applied, w.state)
                  @@ [prepared |-> w.txn.prepared]>>
          flush ==
              IF timestamped
              THEN <<Event("triggerJournalFlush", 0, 0, w.state)>>
              ELSE <<>>
      IN  IF w.lastTimestampSet # NoTs /\ w.commitTimestamp # 0
          THEN fatal(w)
          ELSE [w EXCEPT !.txn = NoTxn,
                         !.log = @ \o closed \o flush,
                         !.isTimestamped = FALSE,
                         !.lastTimestampSet = NoTs,
                         !.prepareTimestamp = 0,
                         !.mySnapshotId = w.nextSnapshotId,
                         !.nextSnapshotId = @ + 1,
                         !.isOplogReader = FALSE,
                         !.orderedCommit = TRUE]

\* --------------------------------------------------------------- _txnClose
\* The engine calls checked by invariantWTOK (timestamp_transaction,
\* commit_transaction, rollback_transaction) return 0: their failure ends the
\* process before any field is read again.
txnClose(w, commit) ==
    IF ~isActive(w) THEN fatal(w)
    ELSE
      LET stamped == commit /\ w.commitTimestamp # 0
          applied == IF stamped THEN w.commitTimestamp ELSE w.txn.commitTs
          timestamped == stamped \/ w.isTimestamped
          closed ==
              <<Event(IF commit THEN "commit_transaction"
                                ELSE "rollback_transaction",
                      0, applied, w.state)
                  @@ [prepared |-> w.txn.prepared]>>
          flush ==
              IF timestamped /\ ~w.orderedCommit
              THEN <<Event("triggerJournalFlush", 0, 0, w.state)>>
              ELSE <<>>
      IN  IF w.lastTimestampSet # NoTs /\ w.commitTimestamp # 0
          THEN fatal(w)
          ELSE [w EXCEPT !.txn = NoTxn,
                         !.log = @ \o closed \o flush,
                         !.isTimestamped = FALSE,
                         !.lastTimestampSet = NoTs,
                         !.prepareTimestamp = 0,
                         !.mySnapshotId = w.nextSnapshotId,
                         !.nextSnapshotId = @ + 1,
                         !.isOplogReader = FALSE,
                         !.orderedCommit = TRUE]

\* ------------------------------------------------------ _commit and _abort
\* The commit time handed to the handlers.
\* Variant: the commit time ignores commitTimestamp.
effectiveCommitTime_LastOnly(w) == w.lastTimestampSet

effectiveCommitTime(w) ==
    IF w.commitTimestamp = 0 THEN w.lastTimestampSet ELSE w.commitTimestamp

\* Variant: the notification is issued twice.
notify_Twice(w) ==
    [w EXCEPT !.log =
        @ \o <<Event("notifyPreparedUnitOfWorkHasCommittedOrAborted",
                     0, 0, w.state),
               Event("notifyPreparedUnitOfWorkHasCommittedOrAborted",
                     0, 0, w.state)>>]

\* _sessionCache->notifyPreparedUnitOfWorkHasCommittedOrAborted()
notify(w) ==
    [w EXCEPT !.log =
        Append(@, Event("notifyPreparedUnitOfWorkHasCommittedOrAborted",
                        0, 0, w.state))]

\* Variant: the close in _commit leaves isOplogReader and orderedCommit as
\* the caller set them.
commit_KeepsCallerFlags(w) ==
    LET time == effectiveCommitTime(w)
        notifyDone == w.prepareTimestamp # 0
        w1 == IF w.session /\ isActive(w)
              THEN [txnClose(w, TRUE) EXCEPT
                       !.isOplogReader = w.isOplogReader,
                       !.orderedCommit = w.orderedCommit]
              ELSE w
        w2 == setState(w1, "Committing")
        w3 == IF notifyDone \/ w.failpoint THEN notify(w2) ELSE w2
    IN  IF w1.halt # "none" THEN w1
        ELSE [w3 EXCEPT !.pc = "commit", !.idx = 1, !.commitTime = time]

\* Variant: the close in _commit clears commitTimestamp.
commit_ClearsCommitTimestamp(w) ==
    LET time == effectiveCommitTime(w)
        notifyDone == w.prepareTimestamp # 0
        w1 == IF w.session /\ isActive(w)
              THEN [txnClose(w, TRUE) EXCEPT !.commitTimestamp = 0]
              ELSE w
        w2 == setState(w1, "Committing")
        w3 == IF notifyDone \/ w.failpoint THEN notify(w2) ELSE w2
    IN  IF w1.halt # "none" THEN w1
        ELSE [w3 EXCEPT !.pc = "commit", !.idx = 1, !.commitTime = time]

\* _commit up to the first handler: lines 106-121.
commit(w) ==
    LET time == effectiveCommitTime(w)
        notifyDone == w.prepareTimestamp # 0
        w1 == IF w.session /\ isActive(w) THEN txnClose(w, TRUE) ELSE w
        w2 == setState(w1, "Committing")
        w3 == IF notifyDone \/ w.failpoint THEN notify(w2) ELSE w2
    IN  IF w1.halt # "none" THEN w1
        ELSE [w3 EXCEPT !.pc = "commit", !.idx = 1, !.commitTime = time]

\* _abort up to the first handler: lines 136-148.  The handlers run from the
\* last registered one.
abort(w, caller) ==
    LET notifyDone == w.prepareTimestamp # 0
        w1 == IF w.session /\ isActive(w) THEN txnClose(w, FALSE) ELSE w
        w2 == setState(w1, "Aborting")
        w3 == IF notifyDone \/ w.failpoint THEN notify(w2) ELSE w2
    IN  IF w1.halt # "none" THEN w1
        ELSE [w3 EXCEPT !.pc = caller, !.idx = Len(w.changes)]

\* The handler the loop of _commit / _abort is at, 0 past the end.
currentHandler(w) ==
    IF w.idx \in 1..Len(w.changes) THEN w.changes[w.idx] ELSE 0

\* Variant: the loop of _abort advances like the loop of _commit.
leaveHandler_Forward(w) ==
    [w EXCEPT !.inHandler = FALSE, !.idx = @ + 1]

\* Variant: _changes is not cleared after the loop.
finish_KeepChanges(w) ==
    LET w1 == setState(w, "Inactive")
        w2 == [w1 EXCEPT !.pc = "idle", !.idx = 0, !.calls = 0,
                         !.commitTime = NoTs,
                         !.log = <<>>]
    IN  IF w.pc = "destroy"
        THEN [w2 EXCEPT !.session = FALSE, !.halt = "destroyed"]
        ELSE w2

\* (*it)->commit(commitTime) / change->rollback() is entered.
enterHandler(w) ==
    LET ev == IF w.pc = "commit"
              THEN Event("commit", currentHandler(w), w.commitTime, w.state)
              ELSE Event("rollback", currentHandler(w), NoTs, w.state)
    IN  [w EXCEPT !.log = Append(@, ev), !.inHandler = TRUE]

\* The handler returns; ++it.
leaveHandler(w) ==
    [w EXCEPT !.inHandler = FALSE,
              !.idx = IF w.pc = "commit" THEN @ + 1 ELSE @ - 1]

\* After the loop: _changes.clear(); _setState(State::kInactive).  The
\* destructor then releases the session and the object is gone.
finish(w) ==
    LET w1 == setState([w EXCEPT !.changes = <<>>], "Inactive")
        w2 == [w1 EXCEPT !.pc = "idle", !.idx = 0, !.calls = 0,
                         !.commitTime = NoTs,
                         !.log = <<>>]
    IN  IF w.pc = "destroy"
        THEN [w2 EXCEPT !.session = FALSE, !.halt = "destroyed"]
        ELSE w2

\* ---------------------------------------------------------------- _txnOpen
\* The transaction-opening block on the session: begin_transaction reading
\* at readTs.  The engine refuses a second transaction on the session.
beginTransaction(w, readTs) ==
    IF w.txn.open THEN wtFatal(w)
    ELSE [w EXCEPT !.txn = [open |-> TRUE, prepared |-> FALSE,
                            commitTs |-> 0, readTs |-> readTs]]

\* Variant: a refused attempt is not rolled back.
openProvided_NoRollback(w, rc) ==
    IF w.txn.open THEN wtFatal(w)
    ELSE IF rc # "OK"
    THEN throw([w EXCEPT !.txn = [open |-> TRUE, prepared |-> FALSE,
                                  commitTs |-> 0, readTs |-> 0]],
               "SnapshotTooOld")
    ELSE [w EXCEPT !.txn = [open |-> TRUE, prepared |-> FALSE,
                            commitTs |-> 0, readTs |-> w.readAtTimestamp]]

\* case ReadSource::kProvided: open, then set the read timestamp to
\* _readAtTimestamp.  rc is the engine's answer; when it refuses, the
\* block's destructor rolls the attempt back.
openProvided(w, rc) ==
    IF w.txn.open THEN wtFatal(w)
    ELSE IF rc # "OK" THEN throw(w, "SnapshotTooOld")
    ELSE beginTransaction(w, w.readAtTimestamp)

\* Variant: under the two snapshot sources every open reads at the
\* timestamp the collaborator hands out at that moment.
txnOpen_NeverReuses(w, local, ts, rc) ==
    IF isActive(w) THEN fatal(w)
    ELSE IF isCommittingOrAborting(w) THEN fatal(w)
    ELSE
      LET w1 == ensureSession(w)
          src == w1.timestampReadSource
      IN  CASE src \in {"Unset", "NoTimestamp"} ->
                 beginTransaction(w1, IF w1.isOplogReader THEN ts ELSE 0)
            [] src = "MajorityCommitted" ->
                 beginTransaction(
                     [w1 EXCEPT !.majorityCommittedSnapshot = ts], ts)
            [] src = "LastApplied" ->
                 IF local
                 THEN beginTransaction([w1 EXCEPT !.readAtTimestamp = ts], ts)
                 ELSE beginTransaction(w1, 0)
            [] src \in {"AllCommittedSnapshot", "LastAppliedSnapshot"} ->
                 beginTransaction([w1 EXCEPT !.readAtTimestamp = ts], ts)
            [] src = "Provided" -> openProvided(w1, rc)

\* Variant: without the check for running handlers.
txnOpen_NoHandlerCheck(w, local, ts, rc) ==
    IF isActive(w) THEN fatal(w)
    ELSE
      LET w1 == ensureSession(w)
          src == w1.timestampReadSource
      IN  CASE src \in {"Unset", "NoTimestamp"} ->
                 beginTransaction(w1, IF w1.isOplogReader THEN ts ELSE 0)
            [] src = "MajorityCommitted" ->
                 beginTransaction(
                     [w1 EXCEPT !.majorityCommittedSnapshot = ts], ts)
            [] src = "LastApplied" ->
                 IF local
                 THEN beginTransaction([w1 EXCEPT !.readAtTimestamp = ts], ts)
                 ELSE beginTransaction(w1, 0)
            [] src \in {"AllCommittedSnapshot", "LastAppliedSnapshot"} ->
                 IF w1.readAtTimestamp = 0
                 THEN beginTransaction([w1 EXCEPT !.readAtTimestamp = ts], ts)
                 ELSE openProvided(w1, rc)
            [] src = "Provided" -> openProvided(w1, rc)

\* local: the snapshot manager has a local snapshot.  ts: the timestamp the
\* collaborator asked (snapshot manager, oplog manager) answers with.
\* rc: the engine's answer to setTimestamp(_readAtTimestamp).
txnOpen(w, local, ts, rc) ==
    IF isActive(w) THEN fatal(w)
    ELSE IF isCommittingOrAborting(w) THEN fatal(w)
    ELSE
      LET w1 == ensureSession(w)
          src == w1.timestampReadSource
      IN  CASE src \in {"Unset", "NoTimestamp"} ->
                 beginTransaction(w1, IF w1.isOplogReader THEN ts ELSE 0)
            [] src = "MajorityCommitted" ->
                 beginTransaction(
                     [w1 EXCEPT !.majorityCommittedSnapshot = ts], ts)
            [] src = "LastApplied" ->
                 IF local
                 THEN beginTransaction([w1 EXCEPT !.readAtTimestamp = ts], ts)
                 ELSE beginTransaction(w1, 0)
            [] src \in {"AllCommittedSnapshot", "LastAppliedSnapshot"} ->
                 IF w1.readAtTimestamp = 0
                 THEN beginTransaction([w1 EXCEPT !.readAtTimestamp = ts], ts)
                 ELSE openProvided(w1, rc)
            [] src = "Provided" -> openProvided(w1, rc)

\* A call ended by an exception or by the end of the process.
left(w) == w.halt # "none" \/ w.status # "OK"

\* Variant: a successful open takes a new snapshot id from the counter.
getSession_FreshSnapshotId(w, local, ts, rc) ==
    IF ~isActive(w)
    THEN LET w1 == txnOpen(w, local, ts, rc)
         IN  IF left(w1) THEN w1
             ELSE setState([w1 EXCEPT !.mySnapshotId = w1.nextSnapshotId,
                                      !.nextSnapshotId = @ + 1],
                           IF inUnitOfWork(w1) THEN "Active"
                           ELSE "ActiveNotInUnitOfWork")
    ELSE w

\* Variant: every call opens a transaction, whatever the state.
getSession_AlwaysOpens(w, local, ts, rc) ==
    LET w1 == beginTransaction(ensureSession(w), 0)
    IN  IF left(w1) THEN w1
        ELSE setState(w1, IF inUnitOfWork(w1) THEN "Active"
                           ELSE "ActiveNotInUnitOfWork")

getSession(w, local, ts, rc) ==
    IF ~isActive(w)
    THEN LET w1 == txnOpen(w, local, ts, rc)
         IN  IF left(w1) THEN w1
             ELSE setState(w1, IF inUnitOfWork(w1) THEN "Active"
                                ELSE "ActiveNotInUnitOfWork")
    ELSE w

preallocateSnapshot(w, local, ts, rc) == getSession(w, local, ts, rc)

getSessionNoTxn(w) == ensureSession(w)

\* Variant: the close by abandonSnapshot keeps the snapshot id.
abandonSnapshot_KeepSnapshotId(w) ==
    IF inUnitOfWork(w) THEN fatal(w)
    ELSE LET w1 == IF isActive(w) THEN txnClose(w, FALSE) ELSE w
         IN  IF left(w1) THEN w1
             ELSE setState([w1 EXCEPT !.mySnapshotId = w.mySnapshotId],
                           "Inactive")

\* Variant: closing the transaction gives the session back.
abandonSnapshot_ReleaseSession(w) ==
    IF inUnitOfWork(w) THEN fatal(w)
    ELSE LET w1 == IF isActive(w) THEN txnClose(w, FALSE) ELSE w
         IN  IF left(w1) THEN w1
             ELSE setState([w1 EXCEPT !.session = FALSE], "Inactive")

abandonSnapshot(w) ==
    IF inUnitOfWork(w) THEN fatal(w)
    ELSE LET w1 == IF isActive(w) THEN txnClose(w, FALSE) ELSE w
         IN  IF left(w1) THEN w1 ELSE setState(w1, "Inactive")

\* Variant: without the check for running handlers.
beginUnitOfWork_NoHandlerCheck(w) ==
    IF inUnitOfWork(w) THEN fatal(w)
    ELSE setState([w EXCEPT !.registered = IF w.pc = "idle" THEN <<>> ELSE @],
                  IF isActive(w) THEN "Active" ELSE "InactiveInUnitOfWork")

\* Variant: without the check for a unit of work.
abortUnitOfWork_Unchecked(w) ==
    IF w.pc # "idle" THEN undefined(w)
    ELSE abort(w, "abort")

\* Variant: without the check for a unit of work.
registerChange_Unchecked(w, change) ==
    IF w.pc # "idle" THEN undefined(w)
    ELSE [w EXCEPT !.changes = Append(@, change),
                   !.registered = Append(@, change)]

\* Variant: without the check of _lastTimestampSet.
setPrepareTimestamp_NoLastCheck(w, timestamp) ==
    IF ~inUnitOfWork(w) THEN fatal(w)
    ELSE IF w.prepareTimestamp # 0 THEN fatal(w)
    ELSE IF w.commitTimestamp # 0 THEN fatal(w)
    ELSE [w EXCEPT !.prepareTimestamp = timestamp]

\* ------------------------------------------------------------ units of work
beginUnitOfWork(w) ==
    IF inUnitOfWork(w) THEN fatal(w)
    ELSE IF isCommittingOrAborting(w) THEN fatal(w)
    ELSE setState([w EXCEPT !.registered = IF w.pc = "idle" THEN <<>> ELSE @],
                  IF isActive(w) THEN "Active" ELSE "InactiveInUnitOfWork")

\* Variant: without the check that prepareTimestamp is set.
prepareUnitOfWork_NoTimestampCheck(w, local, ts, rc) ==
    IF ~inUnitOfWork(w) THEN fatal(w)
    ELSE LET w1 == getSession(w, local, ts, rc)
         IN  IF left(w1) THEN w1
             ELSE [w1 EXCEPT !.txn.prepared = TRUE]

\* prepare_transaction returns 0 (invariantWTOK).
prepareUnitOfWork(w, local, ts, rc) ==
    IF ~inUnitOfWork(w) THEN fatal(w)
    ELSE IF w.prepareTimestamp = 0 THEN fatal(w)
    ELSE LET w1 == getSession(w, local, ts, rc)
         IN  IF left(w1) THEN w1
             ELSE [w1 EXCEPT !.txn.prepared = TRUE]

\* A handler that ends the unit of work it is running in: the inner _commit
\* or _abort clears _changes, which destroys the running handler and
\* invalidates the outer loop's iterators.
commitUnitOfWork(w) ==
    IF ~inUnitOfWork(w) THEN fatal(w)
    ELSE IF w.pc # "idle" THEN undefined(w)
    ELSE commit(w)

abortUnitOfWork(w) ==
    IF ~inUnitOfWork(w) THEN fatal(w)
    ELSE IF w.pc # "idle" THEN undefined(w)
    ELSE abort(w, "abort")

\* push_back while _commit/_abort iterates over _changes invalidates the
\* loop's end iterator.
registerChange(w, change) ==
    IF ~inUnitOfWork(w) THEN fatal(w)
    ELSE IF w.pc # "idle" THEN undefined(w)
    ELSE [w EXCEPT !.changes = Append(@, change),
                   !.registered = Append(@, change)]

destructor(w) ==
    IF inUnitOfWork(w) THEN fatal(w)
    ELSE abort(w, "destroy")

waitUntilDurable(w) ==
    IF inUnitOfWork(w) THEN fatal(w) ELSE w

\* --------------------------------------------------------------- timestamps
\* rc: the engine's answer to timestamp_transaction(commit_timestamp).
setTimestamp(w, timestamp, local, ts, rc, wtrc) ==
    LET w1 == ensureSession(w)
    IN  IF ~inUnitOfWork(w1) THEN fatal(w1)
        ELSE IF w1.prepareTimestamp # 0 THEN fatal(w1)
        ELSE IF w1.commitTimestamp # 0 THEN fatal(w1)
        ELSE
          LET w2 == [w1 EXCEPT !.lastTimestampSet = timestamp]
              w3 == getSession(w2, local, ts, rc)
          IN  IF left(w3) THEN w3
              ELSE IF wtrc = "OK"
              THEN [w3 EXCEPT !.txn.commitTs = timestamp,
                              !.isTimestamped = TRUE]
              ELSE [w3 EXCEPT !.status = wtrc]

setCommitTimestamp(w, timestamp) ==
    IF ~(~inUnitOfWork(w) \/ w.prepareTimestamp # 0)
    THEN fatal(w)
    ELSE IF w.commitTimestamp # 0 THEN fatal(w)
    ELSE IF w.lastTimestampSet # NoTs THEN fatal(w)
    ELSE IF w.isTimestamped THEN fatal(w)
    ELSE [w EXCEPT !.commitTimestamp = timestamp]

clearCommitTimestamp(w) ==
    IF inUnitOfWork(w) THEN fatal(w)
    ELSE IF w.commitTimestamp = 0 THEN fatal(w)
    ELSE IF w.lastTimestampSet # NoTs THEN fatal(w)
    ELSE IF w.isTimestamped THEN fatal(w)
    ELSE [w EXCEPT !.commitTimestamp = 0]

setPrepareTimestamp(w, timestamp) ==
    IF ~inUnitOfWork(w) THEN fatal(w)
    ELSE IF w.prepareTimestamp # 0 THEN fatal(w)
    ELSE IF w.commitTimestamp # 0 THEN fatal(w)
    ELSE IF w.lastTimestampSet # NoTs THEN fatal(w)
    ELSE [w EXCEPT !.prepareTimestamp = timestamp]

getPrepareTimestamp(w) ==
    IF ~inUnitOfWork(w) THEN fatal(w)
    ELSE IF w.prepareTimestamp = 0 THEN fatal(w)
    ELSE IF w.commitTimestamp # 0 THEN fatal(w)
    ELSE IF w.lastTimestampSet # NoTs THEN fatal(w)
    ELSE w

\* Variant: without the check of the state and the current read source.
setTimestampReadSource_AnyState(w, readSource, provided) ==
    IF (provided = NoTs) # (readSource # "Provided")
    THEN fatal(w)
    ELSE IF provided = 0 THEN fatal(w)
    ELSE [w EXCEPT !.timestampReadSource = readSource,
                   !.readAtTimestamp = IF provided # NoTs THEN provided ELSE 0]

\* Variant: a null timestamp is accepted.
setTimestampReadSource_AcceptsNull(w, readSource, provided) ==
    IF ~(~isActive(w) \/ w.timestampReadSource = readSource)
    THEN fatal(w)
    ELSE IF (provided = NoTs) # (readSource # "Provided")
    THEN fatal(w)
    ELSE [w EXCEPT !.timestampReadSource = readSource,
                   !.readAtTimestamp = IF provided # NoTs THEN provided ELSE 0]

\* provided: NoTs when the caller passes no timestamp.
setTimestampReadSource(w, readSource, provided) ==
    IF ~(~isActive(w) \/ w.timestampReadSource = readSource)
    THEN fatal(w)
    ELSE IF (provided = NoTs) # (readSource # "Provided")
    THEN fatal(w)
    ELSE IF provided = 0 THEN fatal(w)
    ELSE [w EXCEPT !.timestampReadSource = readSource,
                   !.readAtTimestamp = IF provided # NoTs THEN provided ELSE 0]

\* Variant: a failed call forgets the snapshot recorded before.
obtainMajorityCommittedSnapshot_Forgets(w, snapshotName) ==
    IF w.timestampReadSource # "MajorityCommitted"
    THEN fatal(w)
    ELSE IF snapshotName = NoTs
    THEN [w EXCEPT !.status = "ReadConcernMajorityNotAvailableYet",
                   !.majorityCommittedSnapshot = 0]
    ELSE [w EXCEPT !.majorityCommittedSnapshot = snapshotName]

\* snapshotName: getMinSnapshotForNextCommittedRead(), NoTs when there is none.
obtainMajorityCommittedSnapshot(w, snapshotName) ==
    IF w.timestampReadSource # "MajorityCommitted"
    THEN fatal(w)
    ELSE IF snapshotName = NoTs
    THEN [w EXCEPT !.status = "ReadConcernMajorityNotAvailableYet"]
    ELSE [w EXCEPT !.majorityCommittedSnapshot = snapshotName]

\* A const function: after is the recovery unit when it returns or ends the
\* process, value what it returns (NoTs for boost::none).
getPointInTimeReadTimestamp(w) ==
    LET src == w.timestampReadSource
    IN  CASE src \in {"Provided", "LastAppliedSnapshot",
                      "AllCommittedSnapshot"} ->
               IF w.readAtTimestamp = 0
               THEN [after |-> fatal(w), value |-> NoTs]
               ELSE [after |-> w, value |-> w.readAtTimestamp]
          [] src = "LastApplied" /\ w.readAtTimestamp # 0 ->
               [after |-> w, value |-> w.readAtTimestamp]
          [] src = "MajorityCommitted" ->
               IF w.majorityCommittedSnapshot = 0
               THEN [after |-> fatal(w), value |-> NoTs]
               ELSE [after |-> w, value |-> w.majorityCommittedSnapshot]
          [] OTHER -> [after |-> w, value |-> NoTs]

\* The caller declares its writes unordered (FALSE) or ordered.
setOrderedCommit(w, value) == [w EXCEPT !.orderedCommit = value]

\* The caller marks the recovery unit as an oplog reader.
setIsOplogReader(w) == [w EXCEPT !.isOplogReader = TRUE]

\* ------------------------------------------------------------------ actions
Init ==
    /\ state = "Inactive"
    /\ session = FALSE
    /\ txn = NoTxn
    /\ changes = <<>>
    /\ commitTimestamp = 0
    /\ lastTimestampSet = NoTs
    /\ prepareTimestamp = 0
    /\ isTimestamped = FALSE
    /\ orderedCommit = TRUE
    /\ isOplogReader = FALSE
    /\ timestampReadSource = "Unset"
    /\ readAtTimestamp = 0
    /\ majorityCommittedSnapshot = 0
    /\ mySnapshotId = 1
    /\ nextSnapshotId = 2
    /\ failpoint = FALSE
    /\ pc = "idle"
    /\ idx = 0
    /\ inHandler = FALSE
    /\ calls = 0
    /\ commitTime = NoTs
    /\ log = <<>>
    /\ registered = <<>>
    /\ status = "OK"
    /\ halt = "none"
    /\ units = [t \in Threads |-> NoUnit]
    /\ assigned = <<[unit |-> 0, value |-> 1, floor |-> 0]>>

\* What the engine answers to a timestamp it is given.
Answers == {"OK", "BadValue"}

\* Timestamps a collaborator hands out (never null).
Given == 1..MaxReadTs

\* Read timestamps a caller provides: none, null, or a timestamp.
Provided == {NoTs, 0} \cup Given

\* What the collaborators can answer when a transaction is opened, as far as
\* _txnOpen asks them under the read source in force: whether the snapshot
\* manager has a local snapshot, the timestamp handed out, and the engine's
\* answer to a read timestamp.
OpenAnswers(w) ==
    LET src == w.timestampReadSource
        locals == IF src = "LastApplied" THEN BOOLEAN ELSE {TRUE}
        reuse == \/ src = "Provided"
                 \/ /\ src \in {"AllCommittedSnapshot", "LastAppliedSnapshot"}
                    /\ w.readAtTimestamp # 0
        asked == \/ src \in {"Unset", "NoTimestamp"} /\ w.isOplogReader
                 \/ src \in {"MajorityCommitted", "LastApplied"}
                 \/ /\ src \in {"AllCommittedSnapshot", "LastAppliedSnapshot"}
                    /\ w.readAtTimestamp = 0
    IN  { a \in [local : locals, ts : Given, rc : Answers] :
            /\ (~reuse => a.rc = "OK")
            /\ (~asked \/ ~a.local => a.ts = 1) }

\* A member function can be called: by the owner between calls, or by the
\* handler that is executing.
Callable ==
    halt = "none" /\ (pc = "idle" \/ (inHandler /\ calls < MaxHandlerCalls))

\* The fields as a call finds them.  log records what one call of the owner
\* makes the collaborators do.
Call ==
    [W EXCEPT !.status = "OK",
              !.log = IF pc = "idle" THEN <<>> ELSE @,
              !.calls = IF inHandler THEN @ + 1 ELSE @]

\* The call's result becomes the next state (snapshot ids stay in bounds).
Do(w) == w.mySnapshotId <= MaxSnapshotId /\ Set(w)

BeginUnitOfWork == Callable /\ Do(beginUnitOfWork(Call))

PrepareUnitOfWork ==
    /\ Callable
    /\ \E a \in OpenAnswers(W) :
          Do(prepareUnitOfWork(Call, a.local, a.ts, a.rc))

CommitUnitOfWork == Callable /\ Do(commitUnitOfWork(Call))

AbortUnitOfWork == Callable /\ Do(abortUnitOfWork(Call))

\* The handler passed is a new object: the next one allocated.
RegisterChange ==
    /\ Callable
    /\ Len(registered) < MaxChanges
    /\ Do(registerChange(Call, Len(registered) + 1))

EnterHandler ==
    /\ halt = "none" /\ pc # "idle" /\ ~inHandler
    /\ currentHandler(W) # 0
    /\ Do(enterHandler(W))

LeaveHandler == halt = "none" /\ inHandler /\ Do(leaveHandler(W))

Finish ==
    /\ halt = "none" /\ pc # "idle" /\ ~inHandler
    /\ currentHandler(W) = 0
    /\ Do(finish(W))

Destructor ==
    /\ halt = "none" /\ pc = "idle"
    /\ Do(destructor(Call))

GetSession ==
    /\ Callable
    /\ \E a \in OpenAnswers(W) : Do(getSession(Call, a.local, a.ts, a.rc))

PreallocateSnapshot ==
    /\ Callable
    /\ \E a \in OpenAnswers(W) :
          Do(preallocateSnapshot(Call, a.local, a.ts, a.rc))

GetSessionNoTxn == Callable /\ Do(getSessionNoTxn(Call))

AbandonSnapshot == Callable /\ Do(abandonSnapshot(Call))

WaitUntilDurable == Callable /\ Do(waitUntilDurable(Call))

SetTimestamp ==
    /\ Callable
    /\ \E timestamp \in Timestamps, a \in OpenAnswers(W), wtrc \in Answers :
          Do(setTimestamp(Call, timestamp, a.local, a.ts, a.rc, wtrc))

SetCommitTimestamp ==
    Callable /\ \E timestamp \in Timestamps : Do(setCommitTimestamp(Call, timestamp))

ClearCommitTimestamp == Callable /\ Do(clearCommitTimestamp(Call))

SetPrepareTimestamp ==
    Callable /\ \E timestamp \in Timestamps : Do(setPrepareTimestamp(Call, timestamp))

GetPrepareTimestamp == Callable /\ Do(getPrepareTimestamp(Call))

SetTimestampReadSource(sources, timestamps) ==
    /\ Callable
    /\ \E readSource \in sources, provided \in timestamps :
          Do(setTimestampReadSource(Call, readSource, provided))

ObtainMajorityCommittedSnapshot ==
    /\ Callable
    /\ \E snapshotName \in {NoTs} \cup Given :
          Do(obtainMajorityCommittedSnapshot(Call, snapshotName))

GetPointInTimeReadTimestamp ==
    Callable /\ Do(getPointInTimeReadTimestamp(Call).after)

\* A test arms or disarms WTAlwaysNotifyPrepareConflictWaiters.
SetFailPoint ==
    /\ halt = "none"
    /\ \E armed \in BOOLEAN : Do([W EXCEPT !.failpoint = armed])

\* The read sources of the units-of-work specification: one that opens
\* without a read timestamp and one whose open the engine can refuse.
CoreSources == {"Unset", "Provided"}

\* The timestamps passed with them: none, null, or a timestamp.
CoreProvided == {NoTs, 0, 1}

Next ==
    \/ BeginUnitOfWork
    \/ PrepareUnitOfWork
    \/ CommitUnitOfWork
    \/ AbortUnitOfWork
    \/ RegisterChange
    \/ EnterHandler
    \/ LeaveHandler
    \/ Finish
    \/ Destructor
    \/ GetSession
    \/ PreallocateSnapshot
    \/ GetSessionNoTxn
    \/ AbandonSnapshot
    \/ WaitUntilDurable
    \/ SetTimestamp
    \/ SetCommitTimestamp
    \/ ClearCommitTimestamp
    \/ SetPrepareTimestamp
    \/ GetPrepareTimestamp
    \/ SetTimestampReadSource(CoreSources, CoreProvided)

Spec == Init /\ [][Next]_vars

\* ------------------------------------------------ closing transactions
\* Units of work without handlers, with the setters of orderedCommit and
\* isOplogReader and the fail point: what a transaction close does.
SetOrderedCommit ==
    Callable /\ \E ordered \in BOOLEAN : Do(setOrderedCommit(Call, ordered))

SetIsOplogReader == Callable /\ Do(setIsOplogReader(Call))

CloseNext ==
    \/ BeginUnitOfWork
    \/ PrepareUnitOfWork
    \/ CommitUnitOfWork
    \/ AbortUnitOfWork
    \/ Finish
    \/ Destructor
    \/ GetSession
    \/ AbandonSnapshot
    \/ SetTimestamp
    \/ SetCommitTimestamp
    \/ ClearCommitTimestamp
    \/ SetPrepareTimestamp
    \/ SetFailPoint
    \/ SetOrderedCommit
    \/ SetIsOplogReader

CloseSpec == Init /\ [][CloseNext]_vars

\* ------------------------------------------------------ every read source
\* Opening and closing transactions under every read source.
ReadSourceNext ==
    \/ BeginUnitOfWork
    \/ CommitUnitOfWork
    \/ AbortUnitOfWork
    \/ Finish
    \/ GetSession
    \/ PreallocateSnapshot
    \/ GetSessionNoTxn
    \/ AbandonSnapshot
    \/ WaitUntilDurable
    \/ SetTimestampReadSource(ReadSources, Provided)
    \/ ObtainMajorityCommittedSnapshot
    \/ SetIsOplogReader
    \/ GetPointInTimeReadTimestamp

ReadSourceSpec == Init /\ [][ReadSourceNext]_vars

\* ------------------------------------------- handlers and transactions
\* Units of work with handlers that call the recovery unit, and the
\* functions that open a transaction or register a handler.
HandlerNext ==
    \/ BeginUnitOfWork
    \/ PrepareUnitOfWork
    \/ CommitUnitOfWork
    \/ AbortUnitOfWork
    \/ RegisterChange
    \/ EnterHandler
    \/ LeaveHandler
    \/ Finish
    \/ GetSession
    \/ PreallocateSnapshot
    \/ AbandonSnapshot
    \/ SetTimestamp
    \/ SetPrepareTimestamp
    \/ SetTimestampReadSource(CoreSources, CoreProvided)

HandlerSpec == Init /\ [][HandlerNext]_vars

\* ------------------------------------------- the snapshot id counter
\* Recovery units of several threads draw their snapshot ids from the one
\* counter nextSnapshotId (an AtomicUInt64): in the constructor and in
\* _txnClose.  The counter does not wrap within the bounds (2^64 values).

\* Variant: the fetch does not advance the counter.
fetchAndAdd_NoAdd(counter) == [value |-> counter, next |-> counter]

\* nextSnapshotId.fetchAndAdd(1): one atomic step.
fetchAndAdd(counter) == [value |-> counter, next |-> counter + 1]

\* The largest snapshot id assigned so far.
LastAssigned ==
    CHOOSE v \in {assigned[i].value : i \in 1..Len(assigned)} :
        \A i \in 1..Len(assigned) : assigned[i].value <= v

\* The fields of the recovery unit of the units-of-work specification.
UnitFields ==
    <<state, session, txn, changes, commitTimestamp, lastTimestampSet,
      prepareTimestamp, isTimestamped, orderedCommit, isOplogReader,
      timestampReadSource, readAtTimestamp, majorityCommittedSnapshot,
      mySnapshotId, failpoint, pc, idx, inHandler, calls, commitTime, log,
      registered, status, halt>>

\* Thread t enters the constructor of a recovery unit.
BeginConstruct(t) ==
    /\ units[t].at \in {"none", "idle"}
    /\ units' = [units EXCEPT ![t] = [at |-> "constructor", got |-> 0,
                                       floor |-> LastAssigned, id |-> 0]]
    /\ UNCHANGED <<nextSnapshotId, assigned, UnitFields>>

\* Thread t enters _txnClose on its recovery unit.
BeginTxnClose(t) ==
    /\ units[t].at = "idle"
    /\ units' = [units EXCEPT ![t].at = "txnClose",
                              ![t].floor = LastAssigned]
    /\ UNCHANGED <<nextSnapshotId, assigned, UnitFields>>

\* nextSnapshotId.fetchAndAdd(1) on thread t.
FetchAndAdd(t) ==
    /\ units[t].at \in {"constructor", "txnClose"}
    /\ units[t].got = 0
    /\ nextSnapshotId <= MaxSnapshotId + 1
    /\ LET fetched == fetchAndAdd(nextSnapshotId)
       IN  /\ units' = [units EXCEPT ![t].got = fetched.value]
           /\ nextSnapshotId' = fetched.next
    /\ UNCHANGED <<assigned, UnitFields>>

\* _mySnapshotId takes the value fetched; the function returns.
AssignSnapshotId(t) ==
    /\ units[t].got # 0
    /\ units' = [units EXCEPT ![t].at = "idle", ![t].got = 0,
                              ![t].id = units[t].got]
    /\ assigned' = Append(assigned, [unit |-> t, value |-> units[t].got,
                                     floor |-> units[t].floor])
    /\ UNCHANGED <<nextSnapshotId, UnitFields>>

SnapshotIdNext ==
    \E t \in Threads :
        \/ BeginConstruct(t)
        \/ BeginTxnClose(t)
        \/ FetchAndAdd(t)
        \/ AssignSnapshotId(t)

SnapshotIdSpec == Init /\ [][SnapshotIdNext]_vars

\* ---------------------------------------------------------------- claims
\* The handlers whose commit() / rollback() the running _commit or _abort has
\* entered, in order.
HandlerCalls == SelectSeq(log, LAMBDA e : e.ev \in {"commit", "rollback"})

\* The loop of the running _commit / _abort is past its last handler.
LoopDone == pc # "idle" /\ ~inHandler /\ currentHandler(W) = 0

Reverse(seq) == [i \in 1..Len(seq) |-> seq[Len(seq) + 1 - i]]

\* The engine calls that ended a transaction, as the running call made them.
Closes ==
    SelectSeq(log, LAMBDA e :
                  e.ev \in {"commit_transaction", "rollback_transaction"})

EventNames(seq) == [i \in 1..Len(seq) |-> seq[i].ev]

\* C1: commitUnitOfWork runs commit() of the registered handlers h1..hn once
\* each, in that order, and no rollback(); abortUnitOfWork runs rollback() of
\* each once, in the order hn..h1, and no commit().  While the loop runs the
\* handlers entered are a prefix of that order; at its end they are all of it.
C1_HandlerOrder ==
    /\ pc = "commit" =>
          /\ Len(HandlerCalls) <= Len(registered)
          /\ \A i \in 1..Len(HandlerCalls) :
                 /\ HandlerCalls[i].ev = "commit"
                 /\ HandlerCalls[i].h = registered[i]
          /\ LoopDone => Len(HandlerCalls) = Len(registered)
    /\ pc = "abort" =>
          /\ Len(HandlerCalls) <= Len(registered)
          /\ \A i \in 1..Len(HandlerCalls) :
                 /\ HandlerCalls[i].ev = "rollback"
                 /\ HandlerCalls[i].h = Reverse(registered)[i]
          /\ LoopDone => Len(HandlerCalls) = Len(registered)

\* An abort of two handlers has run both, the second registered first.
C1_Witness ==
    /\ pc = "abort" /\ LoopDone /\ halt = "none"
    /\ registered = <<1, 2>>
    /\ Len(HandlerCalls) = 2
    /\ HandlerCalls[1].h = 2 /\ HandlerCalls[2].h = 1

\* C2: the commit time every handler's commit() receives is commitTimestamp
\* if it is set when commitUnitOfWork is called, otherwise lastTimestampSet
\* (none when that is not set either); it is fixed at the call, so all
\* handlers receive the same value although _txnClose clears lastTimestampSet.
C2_CommitTime ==
    [][/\ (pc = "idle" /\ pc' = "commit") =>
              commitTime' = IF commitTimestamp # 0 THEN commitTimestamp
                            ELSE lastTimestampSet
       /\ (pc = "commit" /\ pc' = "commit") => commitTime' = commitTime
       /\ \A i \in 1..Len(log') :
              log'[i].ev = "commit" => log'[i].t = commitTime']_vars

\* Both handlers have received the timestamp that setTimestamp set, after the
\* close has cleared lastTimestampSet.
C2_Witness ==
    /\ pc = "commit" /\ LoopDone /\ halt = "none"
    /\ Len(HandlerCalls) = 2
    /\ HandlerCalls[1].t = 2 /\ HandlerCalls[2].t = 2
    /\ commitTimestamp = 0 /\ lastTimestampSet = NoTs
    /\ Len(Closes) = 1 /\ Closes[1].t = 2

\* C3: beginUnitOfWork is accepted in Inactive (to InactiveInUnitOfWork) and in
\* ActiveNotInUnitOfWork (to Active); in the four other states it ends in a
\* fatal assertion with the state unchanged.
C3_BeginUnitOfWork ==
    [][BeginUnitOfWork =>
          CASE state = "Inactive" ->
                   state' = "InactiveInUnitOfWork" /\ halt' = "none"
            [] state = "ActiveNotInUnitOfWork" ->
                   state' = "Active" /\ halt' = "none"
            [] OTHER -> halt' = "fatal" /\ state' = state]_vars

\* A handler running under Committing called beginUnitOfWork: this state is
\* what the call leaves.
C3_Witness ==
    /\ halt = "fatal" /\ state = "Committing" /\ pc = "commit" /\ inHandler
    /\ beginUnitOfWork([W EXCEPT !.halt = "none"]) = W

\* C4, with "a transaction was open" read as the state being Active:
\* commitUnitOfWork and abortUnitOfWork end in a fatal assertion unless
\* the state is InactiveInUnitOfWork or Active.  Called by the owner in one
\* of these, they move to Committing (Aborting), having made the engine commit
\* (roll back) the transaction exactly when the recovery unit was Active, and
\* the call returns in Inactive with no changes left.
C4_EndUnitOfWork ==
    [][/\ CommitUnitOfWork =>
              IF state \in {"InactiveInUnitOfWork", "Active"}
              THEN pc = "idle" =>
                     /\ state' = "Committing" /\ pc' = "commit"
                     /\ EventNames(Closes)' =
                            IF state = "Active" THEN <<"commit_transaction">>
                            ELSE <<>>
                     /\ state = "Active" => txn.open /\ ~txn'.open
                     /\ state # "Active" => txn' = txn
              ELSE halt' = "fatal" /\ state' = state
       /\ AbortUnitOfWork =>
              IF state \in {"InactiveInUnitOfWork", "Active"}
              THEN pc = "idle" =>
                     /\ state' = "Aborting" /\ pc' = "abort"
                     /\ EventNames(Closes)' =
                            IF state = "Active" THEN <<"rollback_transaction">>
                            ELSE <<>>
                     /\ state = "Active" => txn.open /\ ~txn'.open
                     /\ state # "Active" => txn' = txn
              ELSE halt' = "fatal" /\ state' = state
       /\ (pc \in {"commit", "abort"} /\ pc' = "idle") =>
              state' = "Inactive" /\ changes' = <<>>]_vars

\* C4 as claimed: as above, the engine committing (rolling back) the
\* transaction exactly when the session has one open.
C4_Claimed ==
    [][/\ CommitUnitOfWork =>
              IF state \in {"InactiveInUnitOfWork", "Active"}
              THEN pc = "idle" =>
                     /\ state' = "Committing" /\ pc' = "commit"
                     /\ EventNames(Closes)' =
                            IF txn.open THEN <<"commit_transaction">>
                            ELSE <<>>
              ELSE halt' = "fatal" /\ state' = state
       /\ AbortUnitOfWork =>
              IF state \in {"InactiveInUnitOfWork", "Active"}
              THEN pc = "idle" =>
                     /\ state' = "Aborting" /\ pc' = "abort"
                     /\ EventNames(Closes)' =
                            IF txn.open THEN <<"rollback_transaction">>
                            ELSE <<>>
              ELSE halt' = "fatal" /\ state' = state
       /\ (pc \in {"commit", "abort"} /\ pc' = "idle") =>
              state' = "Inactive" /\ changes' = <<>>]_vars

\* A commit that closed the transaction is about to return, its two handlers
\* run.
C4_Witness ==
    /\ pc = "commit" /\ LoopDone /\ halt = "none"
    /\ state = "Committing"
    /\ Len(changes) = 2
    /\ EventNames(Closes) = <<"commit_transaction">>
    /\ ~txn.open

\* C5: between units of work (state Inactive or ActiveNotInUnitOfWork, no
\* commit or abort in progress) the change list is empty.
C5_EmptyBetweenUnitsOfWork ==
    (pc = "idle" /\ state \in {"Inactive", "ActiveNotInUnitOfWork"}) =>
        changes = <<>>

\* A unit of work that registered two handlers has ended.
C5_Witness ==
    /\ pc = "idle" /\ halt = "none" /\ state = "Inactive"
    /\ registered = <<1, 2>>
    /\ changes = <<>>

\* C6 as claimed: the change list is non-empty only in InactiveInUnitOfWork
\* or Active, so it is empty in Committing and Aborting.
C6_Claimed == changes # <<>> => state \in {"InactiveInUnitOfWork", "Active"}

\* C6 amended: the change list is non-empty only in InactiveInUnitOfWork or
\* Active or while a commit or abort is in progress (_changes is cleared
\* after the last handler has run).
C6_NonEmptyOnlyInUnitOfWork ==
    changes # <<>> =>
        \/ state \in {"InactiveInUnitOfWork", "Active"}
        \/ pc \in {"commit", "abort"}

\* The first of two handlers runs under Committing: both are still listed.
C6_Witness ==
    /\ state = "Committing" /\ pc = "commit" /\ inHandler /\ halt = "none"
    /\ idx = 1
    /\ changes = <<1, 2>>

\* C7: lastTimestampSet is never set together with commitTimestamp, nor
\* together with prepareTimestamp.
C7_LastTimestampSetAlone ==
    lastTimestampSet # NoTs => commitTimestamp = 0 /\ prepareTimestamp = 0

\* setTimestamp has set a timestamp in a unit of work that follows one which
\* committed at a commit timestamp, since cleared.
C7_Witness ==
    /\ halt = "none" /\ state = "Active" /\ pc = "idle"
    /\ lastTimestampSet = 2 /\ isTimestamped
    /\ commitTimestamp = 0
    /\ mySnapshotId > 1

\* C8 as claimed: prepareTimestamp and commitTimestamp are never both set
\* outside a unit of work (Inactive or ActiveNotInUnitOfWork, no commit or
\* abort in progress).
C8_Claimed ==
    (pc = "idle" /\ state \in {"Inactive", "ActiveNotInUnitOfWork"}) =>
        ~(prepareTimestamp # 0 /\ commitTimestamp # 0)

\* C9: in ActiveNotInUnitOfWork and in Active a session is bound.
C9_ActiveHasSession ==
    state \in {"ActiveNotInUnitOfWork", "Active"} => session

\* A transaction is open in a unit of work, on the bound session.
C9_Witness == state = "Active" /\ session /\ txn.open /\ halt = "none"

\* C10 as claimed: a session is bound if and only if the state is
\* ActiveNotInUnitOfWork or Active.
C10_Claimed == session <=> state \in {"ActiveNotInUnitOfWork", "Active"}

\* C10 amended: over every transition, a session is bound whenever the state
\* is ActiveNotInUnitOfWork or Active, and a session once bound stays bound
\* in every later state (Inactive, InactiveInUnitOfWork, Committing and
\* Aborting included) until the recovery unit is destroyed.
C10_SessionStaysBound ==
    [][/\ state' \in {"ActiveNotInUnitOfWork", "Active"} => session'
       /\ (session /\ halt' # "destroyed") => session']_vars

\* abandonSnapshot has closed a transaction: Inactive, the session bound.
C10_Witness ==
    /\ halt = "none" /\ pc = "idle" /\ state = "Inactive"
    /\ session /\ ~txn.open
    /\ Len(Closes) = 1 /\ Closes[1].ev = "rollback_transaction"

\* C11: with recovery units constructed and transactions closed concurrently
\* on several threads, no two snapshot id assignments yield the same value,
\* and every assignment yields a value greater than every assignment that
\* was complete when it started.
C11_SnapshotIdsUnique ==
    /\ \A i, j \in 1..Len(assigned) :
           i # j => assigned[i].value # assigned[j].value
    /\ \A i \in 1..Len(assigned) : assigned[i].value > assigned[i].floor

\* Two threads raced: the one that fetched later assigned first, and one of
\* them has since closed a transaction.
C11_Witness ==
    /\ Len(assigned) = 4
    /\ assigned[2].unit # assigned[3].unit
    /\ assigned[2].value > assigned[3].value
    /\ assigned[4].floor = assigned[2].value

\* C12: every transaction close (by commitUnitOfWork, abortUnitOfWork or
\* abandonSnapshot) changes the snapshot id to a value greater than the one
\* the closed transaction had.
C12_CloseRaisesSnapshotId ==
    [][(txn.open /\ ~txn'.open) => mySnapshotId' > mySnapshotId]_vars

\* A second transaction has been closed, by a commit.
C12_Witness ==
    /\ halt = "none" /\ pc = "commit" /\ ~txn.open
    /\ EventNames(Closes) = <<"commit_transaction">>
    /\ mySnapshotId = 3

\* C13 as claimed: a successful open by getSession or preallocateSnapshot
\* makes the snapshot id greater than it was before the open.
C13_Claimed ==
    [][(~txn.open /\ txn'.open /\ (GetSession \/ PreallocateSnapshot)) =>
          mySnapshotId' > mySnapshotId]_vars

\* C13 amended: a successful open by getSession or preallocateSnapshot leaves
\* the snapshot id as it was (and takes no value from the counter): the id
\* of the transaction is the one assigned at construction or by the
\* preceding close.
C13_OpenKeepsSnapshotId ==
    [][(~txn.open /\ txn'.open /\ (GetSession \/ PreallocateSnapshot)) =>
          mySnapshotId' = mySnapshotId /\ nextSnapshotId' = nextSnapshotId]_vars

\* The second transaction is open under the id its predecessor's close
\* assigned.
C13_Witness ==
    /\ halt = "none" /\ pc = "idle" /\ status = "OK"
    /\ txn.open /\ state = "ActiveNotInUnitOfWork"
    /\ log = <<>>
    /\ mySnapshotId = 2 /\ nextSnapshotId = 3

\* C14 as claimed: getSession in Active or ActiveNotInUnitOfWork opens
\* nothing and keeps the state; in Inactive it opens a transaction and moves
\* to ActiveNotInUnitOfWork, in InactiveInUnitOfWork to Active.
C14_Claimed ==
    [][GetSession =>
          CASE state \in {"ActiveNotInUnitOfWork", "Active"} ->
                   txn' = txn /\ state' = state
            [] state = "Inactive" ->
                   txn'.open /\ state' = "ActiveNotInUnitOfWork"
            [] state = "InactiveInUnitOfWork" ->
                   txn'.open /\ state' = "Active"
            [] OTHER -> TRUE]_vars

\* C14 amended: as claimed when the call returns normally; a call in Inactive
\* or InactiveInUnitOfWork whose open fails (the engine refuses the read
\* timestamp: SnapshotTooOld) opens no transaction and keeps the state.
C14_GetSession ==
    [][GetSession =>
          CASE state \in {"ActiveNotInUnitOfWork", "Active"} ->
                   txn' = txn /\ state' = state /\ halt' = "none"
            [] state \in {"Inactive", "InactiveInUnitOfWork"} ->
                   IF halt' = "none" /\ status' = "OK"
                   THEN /\ ~txn.open /\ txn'.open
                        /\ state' = IF state = "Inactive"
                                    THEN "ActiveNotInUnitOfWork"
                                    ELSE "Active"
                   ELSE txn' = txn /\ state' = state
            [] OTHER -> TRUE]_vars

\* getSession in a unit of work was refused the read timestamp: no
\* transaction, the state as before.
C14_Witness ==
    /\ halt = "none" /\ pc = "idle" /\ status = "SnapshotTooOld"
    /\ state = "InactiveInUnitOfWork" /\ ~txn.open
    /\ lastTimestampSet = NoTs /\ prepareTimestamp = 0

\* The notifications of prepare-conflict waiters the running call has made.
Notifies ==
    SelectSeq(log, LAMBDA e :
                  e.ev = "notifyPreparedUnitOfWorkHasCommittedOrAborted")

\* C15: a commitUnitOfWork or abortUnitOfWork accepted in a prepared unit of
\* work notifies the prepare-conflict waiters exactly once between its start
\* and its return to Inactive: once at the start, and never again while the
\* handlers run.
C15_PreparedNotifiesOnce ==
    [][/\ (/\ pc = "idle" /\ inUnitOfWork(W) /\ txn.prepared
           /\ CommitUnitOfWork \/ AbortUnitOfWork)
          => (pc' # "idle" /\ Len(Notifies') = 1)
       /\ (pc # "idle" /\ pc' # "idle") => Notifies' = Notifies]_vars

\* A prepared transaction was rolled back; its two handlers have run and
\* there has been one notification.
C15_Witness ==
    /\ halt = "none" /\ pc = "abort" /\ LoopDone
    /\ Len(HandlerCalls) = 2
    /\ Len(Closes) = 1 /\ Closes[1].prepared
    /\ Len(Notifies) = 1

\* C16 as claimed: a commit, abort or destruction notifies the
\* prepare-conflict waiters, once, exactly if the unit of work it ends was
\* prepared (prepareUnitOfWork was called in it) or the fail point is armed.
C16_Claimed ==
    [][(pc = "idle" /\ pc' # "idle") =>
          Len(Notifies') = IF txn.prepared \/ failpoint THEN 1 ELSE 0]_vars

\* The calls of triggerJournalFlush the running call has made.
Flushes == SelectSeq(log, LAMBDA e : e.ev = "triggerJournalFlush")

\* C17: a transaction close calls triggerJournalFlush once if the
\* transaction is timestamped at the close (isTimestamped, or a
\* commitTimestamp applied by a commit) and orderedCommit is false, and not
\* at all otherwise; the call follows the engine's commit or rollback.
C17_JournalFlush ==
    [][(txn.open /\ ~txn'.open) =>
          LET byCommit == Closes'[1].ev = "commit_transaction"
              timestamped ==
                  isTimestamped \/ (byCommit /\ commitTimestamp # 0)
          IN  /\ Len(Closes') = 1
              /\ log'[1] = Closes'[1]
              /\ IF timestamped /\ ~orderedCommit
                 THEN Len(Flushes') = 1 /\ log'[2] = Flushes'[1]
                 ELSE Flushes' = <<>>]_vars

\* An unordered commit at commitTimestamp 2 has flushed after the engine
\* committed at 2.
C17_Witness ==
    /\ halt = "none" /\ pc = "commit"
    /\ EventNames(log) = <<"commit_transaction", "triggerJournalFlush">>
    /\ log[1].t = 2
    /\ commitTimestamp = 2

\* C18: after every transaction close lastTimestampSet is empty,
\* prepareTimestamp is empty, isTimestamped and isOplogReader are false and
\* orderedCommit is true.
C18_CloseResets ==
    [][(txn.open /\ ~txn'.open) =>
          /\ lastTimestampSet' = NoTs
          /\ prepareTimestamp' = 0
          /\ ~isTimestamped'
          /\ ~isOplogReader'
          /\ orderedCommit']_vars

\* The close of a prepared, unordered transaction that was timestamped at 2:
\* prepareTimestamp, isTimestamped and orderedCommit have been reset.
C18_Witness ==
    /\ halt = "none" /\ pc = "commit" /\ ~txn.open
    /\ Len(Closes) = 1 /\ Closes[1].prepared /\ Closes[1].t = 2
    /\ Len(Flushes) = 1
    /\ lastTimestampSet = NoTs /\ prepareTimestamp = 0
    /\ ~isTimestamped /\ ~isOplogReader /\ orderedCommit

\* C19 as claimed: after every transaction close commitTimestamp is empty.
C19_Claimed ==
    [][(txn.open /\ ~txn'.open) => commitTimestamp' = 0]_vars

\* C19 amended: a transaction close leaves commitTimestamp as it is; once
\* set, it is emptied by clearCommitTimestamp only.
C19_CloseKeepsCommitTimestamp ==
    [][/\ (txn.open /\ ~txn'.open) => commitTimestamp' = commitTimestamp
       /\ (commitTimestamp # 0 /\ commitTimestamp' # commitTimestamp) =>
              (ClearCommitTimestamp /\ commitTimestamp' = 0)]_vars

\* A commit has closed the transaction at commitTimestamp 1, which is
\* still set.
C19_Witness ==
    /\ halt = "none" /\ pc = "commit" /\ state = "Committing" /\ ~txn.open
    /\ EventNames(log) = <<"commit_transaction">>
    /\ commitTimestamp = 1 /\ log[1].t = commitTimestamp

\* A read source and a timestamp that go together: a timestamp, not null,
\* with kProvided and with no other source.
WellFormed(readSource, provided) ==
    /\ (provided = NoTs) = (readSource # "Provided")
    /\ provided # 0

\* C20: the read source never changes while the state is Active or
\* ActiveNotInUnitOfWork: there setTimestampReadSource(src, ...) is accepted
\* only if src is the current read source and ends in a fatal assertion
\* otherwise; in every other state it is accepted for every well-formed pair
\* of arguments and makes src the read source.
C20_ReadSourceFixedWhileActive ==
    [][/\ isActive(W) => timestampReadSource' = timestampReadSource
       /\ Callable =>
            \A readSource \in ReadSources, provided \in Provided :
                LET after == setTimestampReadSource(Call, readSource, provided)
                IN  IF isActive(W)
                    THEN /\ after.halt = "none" =>
                                readSource = timestampReadSource
                         /\ readSource # timestampReadSource =>
                                after.halt = "fatal"
                    ELSE WellFormed(readSource, provided) =>
                            /\ after.halt = "none"
                            /\ after.timestampReadSource = readSource]_vars

\* A transaction reads at the local snapshot 1 under kLastApplied;
\* setTimestampReadSource(kLastApplied) was accepted while it is open and has
\* reset readAtTimestamp.
C20_Witness ==
    /\ halt = "none" /\ isActive(W) /\ txn.open
    /\ timestampReadSource = "LastApplied"
    /\ txn.readTs = 1 /\ readAtTimestamp = 0

\* C21 as claimed: prepareUnitOfWork ends in a fatal assertion unless it is
\* called in a unit of work with prepareTimestamp set, and the state after an
\* accepted call is the state before it.
C21_Claimed ==
    [][PrepareUnitOfWork =>
          IF inUnitOfWork(W) /\ prepareTimestamp # 0
          THEN state' = state
          ELSE halt' = "fatal" /\ state' = state]_vars

\* C21 amended: prepareUnitOfWork ends in a fatal assertion, the state
\* unchanged, unless it is called in a unit of work with prepareTimestamp
\* set.  An accepted call that returns normally leaves the state Active with
\* the transaction prepared: unchanged when called in Active, and moved from
\* InactiveInUnitOfWork to Active by the transaction it opens.  A call
\* whose open fails changes neither the state nor the transaction.
C21_PrepareUnitOfWork ==
    [][PrepareUnitOfWork =>
          IF inUnitOfWork(W) /\ prepareTimestamp # 0
          THEN IF halt' = "none" /\ status' = "OK"
               THEN /\ state' = "Active"
                    /\ txn'.open /\ txn'.prepared
                    /\ state = "Active" => txn.open
               ELSE state' = state /\ txn' = txn
          ELSE halt' = "fatal" /\ state' = state /\ txn' = txn]_vars

\* prepareUnitOfWork has returned in a unit of work that had called nothing
\* but setPrepareTimestamp: the transaction it opened is prepared and the
\* state is Active.
C21_Witness ==
    /\ halt = "none" /\ pc = "idle" /\ status = "OK"
    /\ state = "Active" /\ txn.open /\ txn.prepared
    /\ prepareTimestamp = 2 /\ commitTimestamp = 0
    /\ lastTimestampSet = NoTs /\ ~isTimestamped
    /\ mySnapshotId = 1

\* C22 as claimed: setCommitTimestamp is accepted when it is called outside a
\* unit of work or in a unit of work whose transaction prepareUnitOfWork has
\* prepared, with commitTimestamp and lastTimestampSet empty and isTimestamped
\* false; every other call ends in a fatal assertion with commitTimestamp
\* unchanged.
C22_Claimed ==
    [][SetCommitTimestamp =>
          IF /\ ~inUnitOfWork(W) \/ txn.prepared
             /\ commitTimestamp = 0
             /\ lastTimestampSet = NoTs
             /\ ~isTimestamped
          THEN halt' = "none"
          ELSE halt' = "fatal" /\ commitTimestamp' = commitTimestamp]_vars

\* setCommitTimestamp(2) was accepted in a unit of work that has set
\* prepareTimestamp and has no prepared transaction.
C22_Witness ==
    /\ halt = "none" /\ pc = "idle" /\ inUnitOfWork(W)
    /\ ~txn.prepared /\ prepareTimestamp # 0
    /\ commitTimestamp = 2

\* C23: when getSession opens a transaction that reads at readAtTimestamp
\* (read source Provided, or LastAppliedSnapshot / AllCommittedSnapshot with
\* the timestamp of an earlier open) and the engine refuses the timestamp as
\* older than the oldest, the call throws SnapshotTooOld, the state is the
\* one before the call, Inactive or InactiveInUnitOfWork, and no transaction
\* is open on the session; and getSession throws SnapshotTooOld in no other
\* case.
C23_SnapshotTooOld ==
    [][/\ (Callable /\ ~isActive(W) /\ ~isCommittingOrAborting(W)) =>
            \A a \in OpenAnswers(W) :
                LET after == getSession(Call, a.local, a.ts, a.rc)
                IN  IF a.rc # "OK"
                    THEN /\ after.status = "SnapshotTooOld"
                         /\ after.halt = "none"
                         /\ after.state = state
                         /\ state \in {"Inactive", "InactiveInUnitOfWork"}
                         /\ ~after.txn.open
                    ELSE after.status = "OK"
       /\ (status' = "SnapshotTooOld" /\ GetSession) =>
            /\ \/ timestampReadSource = "Provided"
               \/ /\ timestampReadSource \in
                         {"LastAppliedSnapshot", "AllCommittedSnapshot"}
                  /\ readAtTimestamp # 0
            /\ state' = state /\ ~txn'.open]_vars

\* Under AllCommittedSnapshot a first transaction read at timestamp 1 and
\* was closed; the open of the next, in a unit of work, was refused.
C23_Witness ==
    /\ halt = "none" /\ pc = "idle" /\ status = "SnapshotTooOld"
    /\ timestampReadSource = "AllCommittedSnapshot" /\ readAtTimestamp = 1
    /\ state = "InactiveInUnitOfWork" /\ ~txn.open
    /\ mySnapshotId = 2

\* C24: under read source MajorityCommitted, obtainMajorityCommittedSnapshot
\* with no majority-committed snapshot available returns
\* ReadConcernMajorityNotAvailableYet and leaves the transaction, the state
\* and majorityCommittedSnapshot as they were; with a snapshot available it
\* returns OK and records that snapshot in majorityCommittedSnapshot, the
\* transaction and the state as they were.
C24_ObtainMajorityCommittedSnapshot ==
    [][/\ (Callable /\ timestampReadSource = "MajorityCommitted") =>
            \A snapshotName \in {NoTs} \cup Given :
                LET after == obtainMajorityCommittedSnapshot(Call, snapshotName)
                IN  /\ after.halt = "none"
                    /\ after.txn = txn /\ after.state = state
                    /\ IF snapshotName = NoTs
                       THEN /\ after.status =
                                   "ReadConcernMajorityNotAvailableYet"
                            /\ after.majorityCommittedSnapshot =
                                   majorityCommittedSnapshot
                       ELSE /\ after.status = "OK"
                            /\ after.majorityCommittedSnapshot = snapshotName
       /\ (/\ timestampReadSource = "MajorityCommitted"
           /\ ObtainMajorityCommittedSnapshot) =>
            /\ txn' = txn /\ state' = state
            /\ status' = "ReadConcernMajorityNotAvailableYet" =>
                   majorityCommittedSnapshot' = majorityCommittedSnapshot]_vars

\* A call found no snapshot after an earlier one had recorded snapshot 1:
\* no transaction is open and the recorded snapshot is kept.
C24_Witness ==
    /\ halt = "none" /\ pc = "idle"
    /\ status = "ReadConcernMajorityNotAvailableYet"
    /\ timestampReadSource = "MajorityCommitted"
    /\ majorityCommittedSnapshot = 1
    /\ state = "Inactive" /\ ~txn.open /\ mySnapshotId = 1

\* The read sources that fix their read timestamp at the first open.
SnapshotSources == {"AllCommittedSnapshot", "LastAppliedSnapshot"}

\* C25: under read source AllCommittedSnapshot or LastAppliedSnapshot the
\* first transaction opened stores the timestamp it reads at in
\* readAtTimestamp; every later open reads at that timestamp and leaves it in
\* place, whatever the collaborators would hand out by then; and the stored
\* timestamp changes by no call but setTimestampReadSource.
C25_ReadTimestampReused ==
    [][/\ (timestampReadSource \in SnapshotSources
              /\ ~txn.open /\ txn'.open) =>
             (/\ txn'.readTs = readAtTimestamp'
              /\ readAtTimestamp' # 0
              /\ readAtTimestamp # 0 => readAtTimestamp' = readAtTimestamp)
       /\ (timestampReadSource \in SnapshotSources
              /\ readAtTimestamp # 0 /\ readAtTimestamp' # readAtTimestamp) =>
             SetTimestampReadSource(ReadSources, Provided)]_vars

\* Under LastAppliedSnapshot the first transaction chose timestamp 2; the
\* third is open and reads at 2.
C25_Witness ==
    /\ halt = "none" /\ pc = "idle" /\ status = "OK"
    /\ timestampReadSource = "LastAppliedSnapshot"
    /\ txn.open /\ txn.readTs = 2 /\ readAtTimestamp = 2
    /\ mySnapshotId = 3

\* C26: setTimestampReadSource accepts Provided only with a timestamp that
\* is not null and every other source only without a timestamp; an accepted
\* call with Provided stores its timestamp in readAtTimestamp.  Hence, after
\* every step, read source Provided implies that readAtTimestamp is not null,
\* and under Provided it is the timestamp of the last accepted
\* setTimestampReadSource(Provided, ...): no other step makes the read source
\* Provided or changes readAtTimestamp under it.
C26_ProvidedHasTimestamp ==
    [][/\ timestampReadSource' = "Provided" => readAtTimestamp' # 0
       /\ Callable =>
            \A readSource \in ReadSources, provided \in Provided :
                LET after == setTimestampReadSource(Call, readSource, provided)
                IN  after.halt = "none" =>
                      /\ WellFormed(readSource, provided)
                      /\ after.timestampReadSource = readSource
                      /\ readSource = "Provided" =>
                             after.readAtTimestamp = provided
       /\ (/\ timestampReadSource' = "Provided"
           /\ \/ timestampReadSource # "Provided"
              \/ readAtTimestamp' # readAtTimestamp) =>
            (/\ SetTimestampReadSource({"Provided"}, Given)
             /\ halt' = "none")]_vars

\* A transaction reads at the provided timestamp 1; a second
\* setTimestampReadSource(Provided, 2), accepted while it is open, has made
\* readAtTimestamp 2.
C26_Witness ==
    /\ halt = "none" /\ pc = "idle" /\ status = "OK"
    /\ timestampReadSource = "Provided"
    /\ txn.open /\ txn.readTs = 1
    /\ readAtTimestamp = 2

\* Where a call recorded in log belongs in the order of _commit / _abort:
\* the close of the transaction, the notification, the handlers.
Stage(e) ==
    CASE e.ev \in {"commit_transaction", "rollback_transaction",
                   "triggerJournalFlush"} -> 1
      [] e.ev = "notifyPreparedUnitOfWorkHasCommittedOrAborted" -> 2
      [] OTHER -> 3

\* C27 as claimed: while commitUnitOfWork (abortUnitOfWork) runs, the engine's
\* commit (rollback) of the transaction comes first and is made before the
\* state is Committing (Aborting), the notification of the prepare-conflict
\* waiters follows under Committing (Aborting), the handlers come last, and
\* every handler is entered in state Committing (Aborting).
C27_Claimed ==
    pc \in {"commit", "abort"} =>
        LET ending == IF pc = "commit" THEN "Committing" ELSE "Aborting"
        IN  /\ \A i, j \in 1..Len(log) :
                   i < j => Stage(log[i]) <= Stage(log[j])
            /\ \A i \in 1..Len(log) :
                   CASE Stage(log[i]) = 1 -> log[i].st = "Active"
                     [] OTHER -> log[i].st = ending

\* The second handler of a commit was entered in state Inactive: the first
\* had called abandonSnapshot.
C27_Witness ==
    /\ halt = "none" /\ pc = "commit" /\ inHandler
    /\ Len(HandlerCalls) = 2
    /\ HandlerCalls[1].st = "Committing"
    /\ HandlerCalls[2].st = "Inactive"

\* C28: in state Committing or Aborting getSession, preallocateSnapshot,
\* setTimestamp, prepareUnitOfWork and registerChange end in a fatal
\* assertion, whatever their arguments and the collaborators' answers; no
\* step taken in Committing or Aborting opens a storage transaction or adds
\* a handler, and none leads to ActiveNotInUnitOfWork, Active or
\* InactiveInUnitOfWork.
C28_NoOpenWhileCommittingOrAborting ==
    [][isCommittingOrAborting(W) =>
          /\ ~isActive(W') /\ ~inUnitOfWork(W')
          /\ ~txn.open => ~txn'.open
          /\ Len(changes') <= Len(changes)
          /\ Callable =>
               /\ \A a \in OpenAnswers(W) :
                     /\ getSession(Call, a.local, a.ts, a.rc).halt = "fatal"
                     /\ preallocateSnapshot(Call, a.local, a.ts, a.rc).halt
                            = "fatal"
                     /\ prepareUnitOfWork(Call, a.local, a.ts, a.rc).halt
                            = "fatal"
                     /\ \A timestamp \in Timestamps, wtrc \in Answers :
                            setTimestamp(Call, timestamp,
                                         a.local, a.ts, a.rc, wtrc).halt
                                = "fatal"
               /\ \A change \in 1..MaxChanges :
                     registerChange(Call, change).halt = "fatal"]_vars

\* The first handler of an abort to run, the second registered, called
\* getSession: the process has ended in state Aborting, no transaction open
\* and both handlers still listed.
C28_Witness ==
    /\ halt = "fatal" /\ state = "Aborting" /\ pc = "abort" /\ inHandler
    /\ idx = 2 /\ changes = <<1, 2>> /\ calls = 1
    /\ ~txn.open
    /\ getSession([W EXCEPT !.halt = "none"], TRUE, 1, "OK") = W

\* C29 as claimed: in every state a storage-engine transaction is open on
\* the session if and only if the state is Active or ActiveNotInUnitOfWork.
C29_Claimed == txn.open <=> isActive(W)

\* commitUnitOfWork has returned: the state is Inactive and the transaction
\* that a handler opened is still open on the session.
C29_Witness ==
    /\ halt = "none" /\ pc = "idle" /\ state = "Inactive"
    /\ txn.open /\ session
    /\ changes = <<>> /\ registered # <<>>

\* The commit timestamp the engine had applied to the transaction that the
\* running commitUnitOfWork committed; 0 when it committed none, or one with
\* no commit timestamp applied.
CommittedAt ==
    IF log # <<>> /\ log[1].ev = "commit_transaction" THEN log[1].t ELSE 0

\* C30 as claimed: a handler of commitUnitOfWork receives a commit time T
\* only if the commit closed a storage transaction to which the engine had
\* applied commit timestamp T, and receives none when no commit timestamp was
\* applied (no transaction was open, or the engine refused the timestamp).
C30_Claimed ==
    pc = "commit" =>
        \A i \in 1..Len(HandlerCalls) :
            IF HandlerCalls[i].t = NoTs
            THEN CommittedAt = 0
            ELSE HandlerCalls[i].t = CommittedAt

\* A handler has received commit time 1; the transaction was committed with
\* no commit timestamp applied.
C30_Witness ==
    /\ halt = "none" /\ pc = "commit" /\ inHandler
    /\ Len(HandlerCalls) = 1 /\ HandlerCalls[1].t = 1
    /\ EventNames(Closes) = <<"commit_transaction">>
    /\ CommittedAt = 0

\* The read sources under which a transaction reads at a point in time.
PointInTimeSources ==
    {"Provided", "LastApplied", "LastAppliedSnapshot", "AllCommittedSnapshot",
     "MajorityCommitted"}

\* C31 as claimed: whenever a transaction is open under read source
\* Provided, LastApplied, LastAppliedSnapshot, AllCommittedSnapshot or
\* MajorityCommitted, getPointInTimeReadTimestamp returns the timestamp the
\* open transaction reads at, and none when the transaction was opened without
\* a read timestamp (LastApplied with no local snapshot).
C31_Claimed ==
    (/\ halt = "none" /\ pc = "idle" /\ txn.open
     /\ timestampReadSource \in PointInTimeSources) =>
        LET returned == getPointInTimeReadTimestamp(W)
        IN  /\ returned.after.halt = "none"
            /\ returned.value = IF txn.readTs = 0 THEN NoTs ELSE txn.readTs

\* A transaction reads at the provided timestamp 1; after an accepted
\* setTimestampReadSource(Provided, 2) getPointInTimeReadTimestamp has
\* returned, and what it returns is 2.
C31_Witness ==
    /\ halt = "none" /\ pc = "idle" /\ status = "OK"
    /\ timestampReadSource = "Provided"
    /\ state = "ActiveNotInUnitOfWork" /\ txn.open /\ txn.readTs = 1
    /\ getPointInTimeReadTimestamp(W).value = 2

\* C32 as claimed: outside a unit of work (state Inactive or
\* ActiveNotInUnitOfWork, no commit or abort in progress) prepareTimestamp is
\* empty.
C32_Claimed ==
    (pc = "idle" /\ state \in {"Inactive", "ActiveNotInUnitOfWork"}) =>
        prepareTimestamp = 0

\* A unit of work that set prepareTimestamp to 1 and opened no transaction
\* has ended: the state is Inactive and prepareTimestamp is still 1.
C32_Witness ==
    /\ halt = "none" /\ pc = "idle" /\ state = "Inactive"
    /\ prepareTimestamp = 1 /\ commitTimestamp = 0
    /\ ~txn.open /\ mySnapshotId = 1

\* C33 as claimed: outside a unit of work (state Inactive or
\* ActiveNotInUnitOfWork, no commit or abort in progress) lastTimestampSet is
\* empty.
C33_Claimed ==
    (pc = "idle" /\ state \in {"Inactive", "ActiveNotInUnitOfWork"}) =>
        lastTimestampSet = NoTs

\* A unit of work in which the open made by setTimestamp(2) was refused has
\* been aborted: the state is Inactive, no transaction was ever closed, and
\* lastTimestampSet is still 2.
C33_Witness ==
    /\ halt = "none" /\ pc = "idle" /\ state = "Inactive"
    /\ lastTimestampSet = 2 /\ ~isTimestamped
    /\ timestampReadSource = "Provided"
    /\ ~txn.open /\ mySnapshotId = 1

\* The state changes of the state machine as specified.
LegalTransitions ==
    {<<"Inactive", "InactiveInUnitOfWork">>,
     <<"Inactive", "ActiveNotInUnitOfWork">>,
     <<"ActiveNotInUnitOfWork", "Active">>,
     <<"ActiveNotInUnitOfWork", "Inactive">>,
     <<"InactiveInUnitOfWork", "Active">>,
     <<"Active", "Committing">>, <<"Active", "Aborting">>,
     <<"InactiveInUnitOfWork", "Committing">>,
     <<"InactiveInUnitOfWork", "Aborting">>,
     <<"Committing", "Inactive">>, <<"Aborting", "Inactive">>}

\* C34 as claimed: every change of the state, by any operation, is one of
\* the transitions of the state machine as specified.
C34_Claimed ==
    [][state' # state => <<state, state'>> \in LegalTransitions]_vars

\* The destructor of a recovery unit in state ActiveNotInUnitOfWork has
\* rolled the transaction back and is in state Aborting.
C34_Witness ==
    /\ halt = "none" /\ pc = "destroy" /\ state = "Aborting"
    /\ EventNames(log) = <<"rollback_transaction">>
    /\ log[1].st = "ActiveNotInUnitOfWork"

\* C35 as claimed: when commitUnitOfWork commits a prepared transaction with
\* commitTimestamp set, the commit timestamp it hands the engine is not below
\* the prepare timestamp of the unit of work.
C35_Claimed ==
    [][(/\ pc = "idle" /\ pc' = "commit"
        /\ txn.open /\ txn.prepared /\ commitTimestamp # 0) =>
          /\ EventNames(Closes') = <<"commit_transaction">>
          /\ Closes'[1].t >= prepareTimestamp]_vars

\* In a unit of work prepared at timestamp 2, setCommitTimestamp(1) has been
\* accepted.
C35_Witness ==
    /\ halt = "none" /\ pc = "idle" /\ state = "Active"
    /\ txn.open /\ txn.prepared
    /\ prepareTimestamp = 2 /\ commitTimestamp = 1

====
